---- MODULE Spec2Model ----
(***************************************************************************)
(* Model of wmpl/Trajectory/CorrelateRMS.py: the JSON ledger of processed  *)
(* night folders (DatabaseJSON), the discovery of stations and unprocessed *)
(* folders and the loading of observations (RMSDataHandle), the time       *)
(* pairing, and the bin loop of the script.                                *)
(*                                                                         *)
(* A run of the script is one process.  Its in-memory state is lost when   *)
(* the process ends; the data directory and the ledger file stay on disk.  *)
(* Directory names are sequences of characters (the station pattern is a   *)
(* regular expression over characters); a night folder name is the         *)
(* sequence of its "_"-separated tokens, which is what the code splits it  *)
(* into.  A datetime is a whole number of days since 2000-01-01 00:00:00.  *)
(***************************************************************************)
EXTENDS Integers, Sequences, FiniteSets, TLC

VARIABLES
    fs,                      \* the data directory: [units, extra], never written by the script
    file,                    \* the ledger file on disk: [kind, obj]
    pc,                      \* position of the running process
    err,                     \* the uncaught exception that ended the run, or "none"
    dir_path,                \* RMSDataHandle.dir_path of this run
    station_list,            \* result of loadStations
    db,                      \* the DatabaseJSON object (its __dict__)
    processing_list,         \* RMSDataHandle.processing_list
    dt_bins,                 \* the time bins of the run
    bin_idx,                 \* index of the bin the loop is at
    unit_idx,                \* index into processing_list inside loadUnprocessedObservations
    met_obs_list,            \* local list of loadUnprocessedObservations
    unprocessed_observations,\* dh.unprocessed_observations
    ret,                     \* where save() returns to
    save_old,                \* the file's content when the running save() was entered
    traj_calls,              \* the (key, summary) pairs handed to addTrajectory in this run, in order
    prev_outcome,            \* how the previous run ended: "none", "done", "error", "crashed"
    file0,                   \* the ledger file when this run started
    interrupted,             \* <<file0>> of the previous run when it was killed between two bins
    missing_seen,            \* folders found without their data files, in any run so far
    load_log,                \* <<bin, index>> of the folders whose listing was read in this run
    tp_pc,                   \* pairing harness: "call" before findTimePairs, "ret" after
    tp_obs,                  \* pairing harness: met_obs
    tp_pool,                 \* pairing harness: unprocessed_observations
    tp_max,                  \* pairing harness: max_toffset
    tp_found,                \* pairing harness: the returned list
    fn_pc,                   \* function harnesses: "call" before the call, "ret" after
    fn_args,                 \* function harnesses: the arguments
    fn_result                \* function harnesses: the result

mem_vars == <<pc, err, dir_path, station_list, db, processing_list, dt_bins, bin_idx,
              unit_idx, met_obs_list, unprocessed_observations, ret, save_old, traj_calls,
              load_log>>
hist_vars == <<prev_outcome, file0, interrupted, missing_seen>>
tp_vars == <<tp_pc, tp_obs, tp_pool, tp_max, tp_found>>
fn_vars == <<fn_pc, fn_args, fn_result>>
vars == <<fs, file, mem_vars, hist_vars, tp_vars, fn_vars>>

(***************************************************************************)
(* Bounds of the model.                                                    *)
(***************************************************************************)
MaxUnits == 2        \* night folder entries in the data directory
MaxExtra == 1        \* further top-level entries of the data directory
MaxPool == 3         \* pairing harness: length of the pool
MaxTime == 3         \* pairing harness: mean times are 0..MaxTime seconds
MaxOffset == 2       \* pairing harness: max_toffset is 0..MaxOffset seconds

(***************************************************************************)
(* Program constants.                                                      *)
(***************************************************************************)
JSON_DB_NAME == "processed_trajectories.json"
BIN_DAYS == 30             \* bin_days=30 in the generateDatetimeBins call
MAX_TOFFSET == 10          \* default of --maxtoffset

(***************************************************************************)
(* Small helpers.                                                          *)
(***************************************************************************)
None == <<>>
Some(x) == <<x>>

Range(s) == {s[i] : i \in 1..Len(s)}

InSeq(x, s) == \E i \in 1..Len(s) : s[i] = x

Perms(S) == {s \in [1..Cardinality(S) -> S] : \A x \in S : \E i \in 1..Cardinality(S) : s[i] = x}

SeqsUpTo(S, n) == UNION {[1..k -> S] : k \in 0..n}

Abs(x) == IF x < 0 THEN -x ELSE x

Min(S) == CHOOSE x \in S : \A y \in S : x <= y

Max(S) == CHOOSE x \in S : \A y \in S : x >= y

(***************************************************************************)
(* Characters and the names used in the data directory.                    *)
(***************************************************************************)
UpperCase == {"A", "B", "C", "D", "E", "F", "G", "X", "Y"}
Digits == {"0", "1", "2", "3", "4", "5", "6", "7", "8", "9"}
NewLine == "\n"

AB1234 == <<"A", "B", "1", "2", "3", "4">>
CD5678 == <<"C", "D", "5", "6", "7", "8">>
EF9012 == <<"E", "F", "9", "0", "1", "2">>
XY0001 == <<"X", "Y", "0", "0", "0", "1">>
ab1234 == <<"a", "b", "1", "2", "3", "4">>
A1234 == <<"A", "1", "2", "3", "4">>
ABCDEFG == <<"A", "B", "C", "D", "E", "F", "G">>
AB1234nl == <<"A", "B", "1", "2", "3", "4", NewLine>>

(***************************************************************************)
(* The data directory.  A top-level entry is [name, isdir].  A night       *)
(* folder entry of a station directory is a record:                        *)
(*   station   name of the station directory it lies in                    *)
(*   night     night_name.split("_"), the tokens of its name               *)
(*   isdir     whether the entry is a directory                            *)
(*   files     the names os.listdir gives for it                           *)
(*   platepars "ok" when platepars_all_recalibrated.json holds records,    *)
(*             "empty" when it holds the empty object                      *)
(*   meteors   mean time (s) of each meteor in the FTPdetectinfo file      *)
(***************************************************************************)
FTP_FILE == "FTPdetectinfo_AB1234_20190707_000000_000000.txt"
FTP_BACKUP_FILE == "FTPdetectinfo_AB1234_20190707_000000_000000_backup.txt"
FTP_UNCAL_FILE == "FTPdetectinfo_AB1234_20190707_000000_000000_uncalibrated.txt"
PLATEPARS_FILE == "platepars_all_recalibrated.json"

Unit(st, night, isdir, files, pp, meteors) ==
    [station |-> st, night |-> night, isdir |-> isdir, files |-> files,
     platepars |-> pp, meteors |-> meteors]

UnitCands ==
    { Unit(AB1234, <<"AB1234", "20190707", "000000", "000000", "detected">>, TRUE,
           {FTP_FILE, PLATEPARS_FILE}, "ok", <<100>>),
      Unit(AB1234, <<"AB1234", "20190806", "000000", "000000", "detected">>, TRUE,
           {FTP_FILE}, "ok", <<104>>),
      Unit(AB1234, <<"AB1234", "19991231", "000000", "000000", "detected">>, TRUE,
           {FTP_FILE, PLATEPARS_FILE}, "ok", <<50>>),
      Unit(AB1234, <<"notes.txt">>, FALSE, {}, "ok", <<>>),
      Unit(CD5678, <<"CD5678", "20190707", "000000", "000000", "detected">>, TRUE,
           {FTP_FILE, FTP_BACKUP_FILE, PLATEPARS_FILE}, "ok", <<104, 200>>),
      Unit(CD5678, <<"CD5678", "20190806", "000000", "000000", "detected">>, TRUE,
           {FTP_FILE, PLATEPARS_FILE}, "empty", <<150>>),
      Unit(CD5678, <<"CD5678", "20190905", "000000", "000000", "detected">>, TRUE,
           {FTP_UNCAL_FILE, PLATEPARS_FILE}, "ok", <<>>),
      Unit(CD5678, <<"junk">>, TRUE, {FTP_FILE, PLATEPARS_FILE}, "ok", <<300>>),
      Unit(AB1234nl, <<"AB1234", "20190707", "000000", "000000", "detected">>, TRUE,
           {FTP_FILE, PLATEPARS_FILE}, "ok", <<108>>) }

ExtraCands ==
    { [name |-> ab1234, isdir |-> TRUE],
      [name |-> A1234, isdir |-> TRUE],
      [name |-> ABCDEFG, isdir |-> TRUE],
      [name |-> EF9012, isdir |-> TRUE],
      [name |-> XY0001, isdir |-> FALSE] }

\* the dir_path argument the script is started with
DirPaths == {"/data/rms"}

SubsetsUpTo(S, n) == {T \in SUBSET S : Cardinality(T) <= n}

\* two dated folders 60 days apart, which give two bins, and a folder without a datetime
RevisitedUnits ==
    {u \in UnitCands :
        \/ u.station = AB1234 /\ u.night = <<"AB1234", "20190707", "000000", "000000", "detected">>
        \/ u.station = CD5678 /\ u.night = <<"CD5678", "20190905", "000000", "000000", "detected">>
        \/ u.station = CD5678 /\ u.night = <<"junk">>}

\* three dated folders 30 days apart: the middle one lies on the edge of the two bins
BoundaryUnits ==
    {u \in UnitCands :
        \/ u.station = AB1234 /\ u.night = <<"AB1234", "20190707", "000000", "000000", "detected">>
        \/ u.station = AB1234 /\ u.night = <<"AB1234", "20190806", "000000", "000000", "detected">>
        \/ u.station = CD5678 /\ u.night = <<"CD5678", "20190905", "000000", "000000", "detected">>}

FileSystems ==
    [units : SubsetsUpTo(UnitCands, MaxUnits) \cup {RevisitedUnits, BoundaryUnits},
     extra : SubsetsUpTo(ExtraCands, MaxExtra)]

\* os.listdir(self.dir_path): the extra entries and one directory per station that holds entries
RootEntries(f) == f.extra \cup {[name |-> u.station, isdir |-> TRUE] : u \in f.units}

\* os.path.join
JoinPath(a, b) == <<a, b>>

(***************************************************************************)
(* DatabaseJSON.                                                           *)
(***************************************************************************)
EmptyMap == <<>>

\* DatabaseJSON.__init__ before load()
NewDatabaseJSON(db_file_path) ==
    [db_file_path |-> db_file_path, processed_dirs |-> EmptyMap, trajectories |-> EmptyMap]

\* the ledger file: absent, a complete JSON document, or what a killed write leaves
NoObj == NewDatabaseJSON("")
FileAbsent == [kind |-> "absent", obj |-> NoObj]
FileEmpty == [kind |-> "empty", obj |-> NoObj]
FilePartial == [kind |-> "partial", obj |-> NoObj]

\* json.dumps(self2, default=lambda o: o.__dict__, ...): the whole __dict__ as a document
JsonDump(d) == [kind |-> "json", obj |-> d]

\* json.load(f) succeeds on a complete document only
JsonParses(f) == f.kind = "json"

\* os.path.exists(self.db_file_path)
PathExists(f) == f.kind # "absent"

\* faulty variant of load: the file is opened without the os.path.exists test
DatabaseJSON_load_NoExistsTest(d, f) ==
    IF JsonParses(f) THEN [raised |-> FALSE, db |-> f.obj]
                     ELSE [raised |-> TRUE, db |-> d]

\* faulty variant of load: a document that does not parse is dropped silently
DatabaseJSON_load_Swallow(d, f) ==
    IF PathExists(f) /\ JsonParses(f) THEN [raised |-> FALSE, db |-> f.obj]
                                      ELSE [raised |-> FALSE, db |-> d]

\* DatabaseJSON.load: the object's __dict__ becomes the document of the file
DatabaseJSON_load(d, f) ==
    IF PathExists(f)
    THEN IF JsonParses(f) THEN [raised |-> FALSE, db |-> f.obj]
                          ELSE [raised |-> TRUE, db |-> d]
    ELSE [raised |-> FALSE, db |-> d]

\* faulty variant of addProcessedDir: the path is appended without the membership test
addProcessedDir_NoTest(d, station_name, rel_proc_path) ==
    IF station_name \in DOMAIN d.processed_dirs
    THEN [d EXCEPT !.processed_dirs[station_name] = Append(@, rel_proc_path)]
    ELSE d

\* faulty variant of addProcessedDir: a station that is not a key is added with the path
addProcessedDir_AddStation(d, station_name, rel_proc_path) ==
    IF station_name \in DOMAIN d.processed_dirs
    THEN IF ~InSeq(rel_proc_path, d.processed_dirs[station_name])
         THEN [d EXCEPT !.processed_dirs[station_name] = Append(@, rel_proc_path)]
         ELSE d
    ELSE [d EXCEPT !.processed_dirs = @ @@ (station_name :> <<rel_proc_path>>)]

\* DatabaseJSON.addProcessedDir
addProcessedDir(d, station_name, rel_proc_path) ==
    IF station_name \in DOMAIN d.processed_dirs
    THEN IF ~InSeq(rel_proc_path, d.processed_dirs[station_name])
         THEN [d EXCEPT !.processed_dirs[station_name] = Append(@, rel_proc_path)]
         ELSE d
    ELSE d

\* DatabaseJSON.addTrajectory: the body is "pass"
addTrajectory(d, key, summary) == d

(***************************************************************************)
(* RMSDataHandle: stations and unprocessed folders.                        *)
(***************************************************************************)
\* re.match("^[A-Z]{2}[A-Z0-9]{4}$", dir_name): in Python "$" matches at the end of
\* the string and also just before a newline that ends the string
ReMatchStation(dir_name) ==
    /\ Len(dir_name) >= 6
    /\ \A i \in 1..2 : dir_name[i] \in UpperCase
    /\ \A i \in 3..6 : dir_name[i] \in UpperCase \cup Digits
    /\ \/ Len(dir_name) = 6
       \/ Len(dir_name) = 7 /\ dir_name[7] = NewLine

\* RMSDataHandle.loadStations; listing is os.listdir(self.dir_path), in the order it gives
loadStations(listing) ==
    LET used == SelectSeq(listing, LAMBDA e : e.isdir /\ ReMatchStation(e.name))
    IN  [i \in 1..Len(used) |-> used[i].name]

\* the "%Y%m%d" token of a night folder name as a day number, None when it is no date
DateDays(tok) ==
    CASE tok = "19991231" -> Some(-1)
      [] tok = "20190707" -> Some(7127)
      [] tok = "20190806" -> Some(7157)
      [] tok = "20190905" -> Some(7187)
      [] OTHER -> None

\* the "%H%M%S" token: the model's folders are all made at 00:00:00
TimeOfDayOk(tok) == tok = "000000"

\* datetime.strptime("_".join(night_name.split("_")[1:3]), "%Y%m%d_%H%M%S"), None when it raises
ParseNightDt(night) ==
    IF Len(night) >= 3 /\ DateDays(night[2]) # None /\ TimeOfDayOk(night[3])
    THEN DateDays(night[2])
    ELSE None

\* faulty variant of line 269: every folder counts as unprocessed
NotInProcessedDirs_Always(d, station_name, night_path_rel) == TRUE

\* faulty variant of line 269: a station counts as processed once one of its folders is
NotInProcessedDirs_StationOnly(d, station_name, night_path_rel) ==
    d.processed_dirs[station_name] = <<>>

\* line 269: night_path_rel not in self.db.processed_dirs[station_name]
NotInProcessedDirs(d, station_name, night_path_rel) ==
    ~InSeq(night_path_rel, d.processed_dirs[station_name])

\* faulty variant of lines 251-252: the station's list is reset on every discovery
RegisterStation_Reset(d, station_name) ==
    [d EXCEPT !.processed_dirs =
        [s \in DOMAIN @ \cup {station_name} |-> IF s = station_name THEN <<>> ELSE @[s]]]

\* lines 251-252: add the station name to the database if it doesn't exist
RegisterStation(d, station_name) ==
    IF station_name \notin DOMAIN d.processed_dirs
    THEN [d EXCEPT !.processed_dirs = @ @@ (station_name :> <<>>)]
    ELSE d

\* faulty variant of lines 259-273: a folder whose name gives no datetime is left out
StationEntries_SkipUnparsed(d, station_name, nights) ==
    LET todo == SelectSeq(nights, LAMBDA u :
                    /\ NotInProcessedDirs(d, station_name, JoinPath(station_name, u.night))
                    /\ ParseNightDt(u.night) # None)
    IN  [i \in 1..Len(todo) |->
            [station_name |-> station_name,
             night_path_rel |-> JoinPath(station_name, todo[i].night),
             night_dt |-> ParseNightDt(todo[i].night)]]

\* the entries one station contributes to the processing list; nights is
\* os.listdir(station_path) in the order it gives
StationEntries(d, station_name, nights) ==
    LET todo == SelectSeq(nights, LAMBDA u :
                    NotInProcessedDirs(d, station_name, JoinPath(station_name, u.night)))
    IN  [i \in 1..Len(todo) |->
            [station_name |-> station_name,
             night_path_rel |-> JoinPath(station_name, todo[i].night),
             night_dt |-> ParseNightDt(todo[i].night)]]

\* RMSDataHandle.findUnprocessedFolders; order lists every night folder entry of the
\* data directory, a station's entries in the order os.listdir gives them
RECURSIVE findUnprocessedFolders(_, _, _, _)
findUnprocessedFolders(stations, d, plist, order) ==
    IF stations = <<>>
    THEN [db |-> d, processing_list |-> plist]
    ELSE LET station_name == Head(stations)
             d1 == RegisterStation(d, station_name)
             nights == SelectSeq(order, LAMBDA u : u.station = station_name)
         IN  findUnprocessedFolders(Tail(stations), d1,
                                    plist \o StationEntries(d1, station_name, nights), order)

\* the entry of the data directory a processing list entry points at (proc_path)
UnitAt(f, night_path_rel) ==
    CHOOSE u \in f.units : JoinPath(u.station, u.night) = night_path_rel

(***************************************************************************)
(* RMSDataHandle: loading the observations of one folder.                  *)
(***************************************************************************)
\* lines 328-329: an FTPdetectinfo*.txt name with neither "backup" nor "uncalibrated" in it
IsFTPdetectinfoName(name) == name = FTP_FILE

\* lines 325-335: the two names found in the folder, None when not found
HasFTPdetectinfo(u) == \E name \in u.files : IsFTPdetectinfoName(name)

HasPlatepars(u) == \E name \in u.files : name = PLATEPARS_FILE

\* line 338
MissingDataFiles(u) == ~HasFTPdetectinfo(u) \/ ~HasPlatepars(u)

\* faulty variant of lines 312-317: a folder without a datetime is skipped as well
OutsideRange_NoneOutside(night_dt, dt_range) ==
    \/ night_dt = None
    \/ night_dt[1] < dt_range[1]
    \/ night_dt[1] > dt_range[2]

\* lines 312-317: the folder is skipped when its datetime lies outside the closed range
OutsideRange(night_dt, dt_range) ==
    /\ night_dt # None
    /\ \/ night_dt[1] < dt_range[1]
       \/ night_dt[1] > dt_range[2]

\* RMSDataHandle.initMeteorObs: no meteor when the platepars dictionary is empty
initMeteorObs(u) == IF u.platepars = "ok" THEN u.meteors ELSE <<>>

\* lines 359-385: one MeteorObsRMS per meteor of the folder
FolderObservations(station_code, rel_proc_path, u) ==
    LET meteor_list == initMeteorObs(u)
    IN  [i \in 1..Len(meteor_list) |->
            [station_code |-> station_code, rel_proc_path |-> rel_proc_path,
             mean_dt |-> meteor_list[i]]]

(***************************************************************************)
(* RMSDataHandle.findTimePairs.                                            *)
(***************************************************************************)
\* faulty variant of line 430: the boundary is left out
WithinTimeWindow_Strict(met_obs, met_obs2, max_toffset) ==
    Abs(met_obs.mean_dt - met_obs2.mean_dt) < max_toffset

\* line 430
WithinTimeWindow(met_obs, met_obs2, max_toffset) ==
    Abs(met_obs.mean_dt - met_obs2.mean_dt) <= max_toffset

RECURSIVE findTimePairs(_, _, _)
findTimePairs(met_obs, observations, max_toffset) ==
    IF observations = <<>>
    THEN <<>>
    ELSE LET met_obs2 == Head(observations)
             rest == findTimePairs(met_obs, Tail(observations), max_toffset)
         IN  IF met_obs.station_code = met_obs2.station_code
             THEN rest
             ELSE IF WithinTimeWindow(met_obs, met_obs2, max_toffset)
                  THEN <<met_obs2>> \o rest
                  ELSE rest

\* faulty variant of lines 462-465: the folder of the observation is not marked
markObservationAsProcessed_Nothing(d, met_obs) == d

\* RMSDataHandle.markObservationAsProcessed
markObservationAsProcessed(d, met_obs) ==
    addProcessedDir(d, met_obs.station_code, met_obs.rel_proc_path)

(***************************************************************************)
(* The script: bins.                                                       *)
(***************************************************************************)
\* lines 609-610: datetimes of the folders to process, those after the year 2000
ProcDirDts(plist) ==
    {plist[i].night_dt[1] : i \in {j \in 1..Len(plist) :
        plist[j].night_dt # None /\ plist[j].night_dt[1] > 0}}

\* faulty variant of generateDatetimeBins: the bin that is left over after the last
\* whole bin is dropped
generateDatetimeBins_NoRemainder(dt_beg, dt_end, bin_days) ==
    LET span == dt_end - dt_beg
        n == IF span <= bin_days THEN 1 ELSE span \div bin_days
    IN  [i \in 1..n |-> <<dt_beg + (i - 1) * bin_days, dt_beg + i * bin_days>>]

\* faulty variant of generateDatetimeBins: no bin for an empty range
generateDatetimeBins_NoneForEmpty(dt_beg, dt_end, bin_days) ==
    LET span == dt_end - dt_beg
        n == (span + bin_days - 1) \div bin_days
    IN  [i \in 1..n |->
            <<dt_beg + (i - 1) * bin_days,
              IF dt_beg + i * bin_days < dt_end THEN dt_beg + i * bin_days ELSE dt_end>>]

\* wmpl.Utils.Math.generateDatetimeBins: bins of bin_days from dt_beg on, the last
\* one ending at dt_end, and at least one bin
generateDatetimeBins(dt_beg, dt_end, bin_days) ==
    LET span == dt_end - dt_beg
        n == IF span <= bin_days THEN 1 ELSE (span + bin_days - 1) \div bin_days
    IN  [i \in 1..n |->
            <<dt_beg + (i - 1) * bin_days,
              IF dt_beg + i * bin_days < dt_end THEN dt_beg + i * bin_days ELSE dt_end>>]

(***************************************************************************)
(* TrajectoryCorrelator.run (wmpl.Trajectory.CorrelateEngine), as far as   *)
(* it acts on the data handle: every observation of the bin is marked      *)
(* processed, a solved candidate group is handed to addTrajectory, and     *)
(* finish() saves the ledger.                                              *)
(***************************************************************************)
RECURSIVE MarkAll(_, _)
MarkAll(d, observations) ==
    IF observations = <<>>
    THEN d
    ELSE MarkAll(markObservationAsProcessed(d, Head(observations)), Tail(observations))

\* the observations of the bin that have a time pair: the candidate groups' seeds
PairedSeeds(observations) ==
    {i \in 1..Len(observations) :
        findTimePairs(observations[i], observations, MAX_TOFFSET) # <<>>}

\* the summary the solver hands over for the group of observation i
GroupSummary(observations, i) ==
    Len(findTimePairs(observations[i], observations, MAX_TOFFSET)) + 1

RECURSIVE RecordAll(_, _, _)
RecordAll(d, observations, solved) ==
    IF solved = {}
    THEN d
    ELSE LET i == Min(solved)
         IN  RecordAll(addTrajectory(d, observations[i].mean_dt, GroupSummary(observations, i)),
                       observations, solved \ {i})

\* the first summary handed to addTrajectory for each key
RECURSIVE FirstCalls(_, _, _)
FirstCalls(calls, observations, solved) ==
    IF solved = {}
    THEN calls
    ELSE LET i == Min(solved)
             key == observations[i].mean_dt
         IN  FirstCalls(IF key \in DOMAIN calls THEN calls
                        ELSE calls @@ (key :> GroupSummary(observations, i)),
                        observations, solved \ {i})

(***************************************************************************)
(* A run of the script.                                                    *)
(***************************************************************************)
Running == {"start", "stations", "db", "discovered", "bin", "load", "load_obs",
            "correlate", "save_open", "save_write"}
Ended == {"done", "error", "crashed"}

\* the state of a process that has just been started (or is gone)
ResetMem(p, path) ==
    /\ pc' = p
    /\ err' = "none"
    /\ dir_path' = path
    /\ station_list' = <<>>
    /\ db' = NoObj
    /\ processing_list' = <<>>
    /\ dt_bins' = <<>>
    /\ bin_idx' = 0
    /\ unit_idx' = 0
    /\ met_obs_list' = <<>>
    /\ unprocessed_observations' = <<>>
    /\ ret' = "none"
    /\ save_old' = FileAbsent
    /\ traj_calls' = EmptyMap
    /\ load_log' = {}

TpIdle ==
    /\ tp_pc = "off"
    /\ tp_obs = [station_code |-> AB1234, rel_proc_path |-> None, mean_dt |-> 0]
    /\ tp_pool = <<>>
    /\ tp_max = 0
    /\ tp_found = <<>>

FnIdle ==
    /\ fn_pc = "off"
    /\ fn_args = <<>>
    /\ fn_result = <<>>

Init ==
    /\ fs \in FileSystems
    /\ file = FileAbsent
    /\ pc = "start"
    /\ err = "none"
    /\ dir_path \in DirPaths
    /\ station_list = <<>>
    /\ db = NoObj
    /\ processing_list = <<>>
    /\ dt_bins = <<>>
    /\ bin_idx = 0
    /\ unit_idx = 0
    /\ met_obs_list = <<>>
    /\ unprocessed_observations = <<>>
    /\ ret = "none"
    /\ save_old = FileAbsent
    /\ traj_calls = EmptyMap
    /\ load_log = {}
    /\ prev_outcome = "none"
    /\ file0 = FileAbsent
    /\ interrupted = None
    /\ missing_seen = {}
    /\ TpIdle
    /\ FnIdle

\* RMSDataHandle.__init__, line 209
LoadStations ==
    /\ pc = "start"
    /\ \E listing \in Perms(RootEntries(fs)) : station_list' = loadStations(listing)
    /\ pc' = "stations"
    /\ UNCHANGED <<fs, file, err, dir_path, db, processing_list, dt_bins, bin_idx, unit_idx,
                   met_obs_list, unprocessed_observations, ret, save_old, traj_calls,
                   load_log, hist_vars, tp_vars, fn_vars>>

\* RMSDataHandle.__init__, line 212: DatabaseJSON(os.path.join(self.dir_path, JSON_DB_NAME))
LoadDatabase ==
    /\ pc = "stations"
    /\ LET r == DatabaseJSON_load(NewDatabaseJSON(JoinPath(dir_path, JSON_DB_NAME)), file)
       IN  /\ db' = r.db
           /\ pc' = IF r.raised THEN "error" ELSE "db"
           /\ err' = IF r.raised THEN "JSONDecodeError" ELSE err
    /\ UNCHANGED <<fs, file, dir_path, station_list, processing_list, dt_bins, bin_idx,
                   unit_idx, met_obs_list, unprocessed_observations, ret, save_old,
                   traj_calls, load_log, hist_vars, tp_vars, fn_vars>>

\* RMSDataHandle.__init__, line 215
FindUnprocessed ==
    /\ pc = "db"
    /\ \E order \in Perms(fs.units) :
          LET r == findUnprocessedFolders(station_list, db, <<>>, order)
          IN  /\ db' = r.db
              /\ processing_list' = r.processing_list
    /\ pc' = "discovered"
    /\ UNCHANGED <<fs, file, err, dir_path, station_list, dt_bins, bin_idx, unit_idx,
                   met_obs_list, unprocessed_observations, ret, save_old, traj_calls,
                   load_log, hist_vars, tp_vars, fn_vars>>

\* faulty variant of line 581: the script goes on with an empty list
NothingToProcess_Never(plist) == FALSE

\* line 581: if not dh.processing_list
NothingToProcess(plist) == plist = <<>>

\* the script, lines 580-617: stop when there is nothing to process, else make the bins
MakeBins ==
    /\ pc = "discovered"
    /\ IF NothingToProcess(processing_list)
       THEN /\ pc' = "done"
            /\ UNCHANGED <<err, dt_bins, bin_idx>>
       ELSE IF ProcDirDts(processing_list) = {}
       THEN /\ pc' = "error"
            /\ err' = "ValueError"
            /\ UNCHANGED <<dt_bins, bin_idx>>
       ELSE /\ dt_bins' = generateDatetimeBins(Min(ProcDirDts(processing_list)),
                                               Max(ProcDirDts(processing_list)), BIN_DAYS)
            /\ bin_idx' = 1
            /\ pc' = "bin"
            /\ UNCHANGED err
    /\ UNCHANGED <<fs, file, dir_path, station_list, db, processing_list, unit_idx,
                   met_obs_list, unprocessed_observations, ret, save_old, traj_calls,
                   load_log, hist_vars, tp_vars, fn_vars>>

\* the script, line 630: the next bin, or the end of the loop
BinLoop ==
    /\ pc = "bin"
    /\ IF bin_idx > Len(dt_bins)
       THEN /\ pc' = "done"
            /\ UNCHANGED <<unit_idx, met_obs_list>>
       ELSE /\ pc' = "load"
            /\ unit_idx' = 1
            /\ met_obs_list' = <<>>
    /\ UNCHANGED <<fs, file, err, dir_path, station_list, db, processing_list, dt_bins,
                   bin_idx, unprocessed_observations, ret, save_old, traj_calls,
                   load_log, hist_vars, tp_vars, fn_vars>>

\* loadUnprocessedObservations, lines 309-347: one folder of the processing list up to
\* the save, or the return of the list
LoadUnit ==
    /\ pc = "load"
    /\ IF unit_idx > Len(processing_list)
       THEN /\ unprocessed_observations' = met_obs_list
            /\ pc' = "correlate"
            /\ UNCHANGED <<err, db, unit_idx, ret, save_old, load_log, missing_seen>>
       ELSE LET e == processing_list[unit_idx]
                u == UnitAt(fs, e.night_path_rel)
            IN  IF OutsideRange(e.night_dt, dt_bins[bin_idx])
                THEN /\ unit_idx' = unit_idx + 1
                     /\ UNCHANGED <<pc, err, db, unprocessed_observations, ret, save_old,
                                    load_log, missing_seen>>
                ELSE /\ load_log' = load_log \cup {<<bin_idx, unit_idx>>}
                     /\ IF ~u.isdir
                        THEN /\ pc' = "error"
                             /\ err' = "NotADirectoryError"
                             /\ UNCHANGED <<db, unit_idx, unprocessed_observations, ret,
                                            save_old, missing_seen>>
                        ELSE IF MissingDataFiles(u)
                        THEN /\ db' = addProcessedDir(db, e.station_name, e.night_path_rel)
                             /\ missing_seen' = missing_seen \cup {e.night_path_rel}
                             /\ unit_idx' = unit_idx + 1
                             /\ UNCHANGED <<pc, err, unprocessed_observations, ret, save_old>>
                        ELSE /\ pc' = "save_open"
                             /\ ret' = "load_obs"
                             /\ save_old' = file
                             /\ UNCHANGED <<err, db, unit_idx, unprocessed_observations,
                                            missing_seen>>
    /\ UNCHANGED <<fs, file, dir_path, station_list, processing_list, dt_bins, bin_idx,
                   met_obs_list, traj_calls, prev_outcome, file0, interrupted, tp_vars,
                   fn_vars>>

\* DatabaseJSON.save, line 62: open(self.db_file_path, 'w') truncates the file
SaveOpen ==
    /\ pc = "save_open"
    /\ file' = FileEmpty
    /\ pc' = "save_write"
    /\ UNCHANGED <<fs, err, dir_path, station_list, db, processing_list, dt_bins, bin_idx,
                   unit_idx, met_obs_list, unprocessed_observations, ret, save_old,
                   traj_calls, load_log, hist_vars, tp_vars, fn_vars>>

\* DatabaseJSON.save, lines 63-64: the document is written and the file closed
SaveWrite ==
    /\ pc = "save_write"
    /\ file' = JsonDump(db)
    /\ pc' = ret
    /\ ret' = "none"
    /\ UNCHANGED <<fs, err, dir_path, station_list, db, processing_list, dt_bins, bin_idx,
                   unit_idx, met_obs_list, unprocessed_observations, save_old,
                   traj_calls, load_log, hist_vars, tp_vars, fn_vars>>

\* loadUnprocessedObservations, lines 350-385: the observations of the folder
LoadObservations ==
    /\ pc = "load_obs"
    /\ LET e == processing_list[unit_idx]
       IN  met_obs_list' = met_obs_list \o
              FolderObservations(e.station_name, e.night_path_rel, UnitAt(fs, e.night_path_rel))
    /\ unit_idx' = unit_idx + 1
    /\ pc' = "load"
    /\ UNCHANGED <<fs, file, err, dir_path, station_list, db, processing_list, dt_bins,
                   bin_idx, unprocessed_observations, ret, save_old, traj_calls,
                   load_log, hist_vars, tp_vars, fn_vars>>

\* the script, lines 643-644: TrajectoryCorrelator.run up to the save of finish()
Correlate ==
    /\ pc = "correlate"
    /\ \E solved \in SUBSET PairedSeeds(unprocessed_observations) :
          /\ db' = RecordAll(MarkAll(db, unprocessed_observations),
                             unprocessed_observations, solved)
          /\ traj_calls' = FirstCalls(traj_calls, unprocessed_observations, solved)
    /\ bin_idx' = bin_idx + 1
    /\ pc' = "save_open"
    /\ ret' = "bin"
    /\ save_old' = file
    /\ UNCHANGED <<fs, file, err, dir_path, station_list, processing_list, dt_bins,
                   unit_idx, met_obs_list, unprocessed_observations, load_log, hist_vars, tp_vars, fn_vars>>

\* the process is killed; inside save(), after the truncation, the file keeps nothing
\* or the part of the document that had reached the disk
Crash ==
    /\ pc \in Running
    /\ \E f \in (IF pc = "save_write" THEN {FileEmpty, FilePartial} ELSE {file}) : file' = f
    /\ ResetMem("crashed", dir_path)
    /\ interrupted' = IF pc = "bin" /\ 1 < bin_idx /\ bin_idx <= Len(dt_bins)
                      THEN Some(file0)
                      ELSE None
    /\ UNCHANGED <<fs, prev_outcome, file0, missing_seen, tp_vars, fn_vars>>

\* the script is started again on the same data directory
NextRun ==
    /\ pc \in Ended
    /\ \E path \in DirPaths : ResetMem("start", path)
    /\ prev_outcome' = pc
    /\ file0' = file
    /\ interrupted' = IF pc = "crashed" THEN interrupted ELSE None
    /\ UNCHANGED <<fs, file, missing_seen, tp_vars, fn_vars>>

Next ==
    \/ LoadStations
    \/ LoadDatabase
    \/ FindUnprocessed
    \/ MakeBins
    \/ BinLoop
    \/ LoadUnit
    \/ SaveOpen
    \/ SaveWrite
    \/ LoadObservations
    \/ Correlate
    \/ Crash
    \/ NextRun

Spec == Init /\ [][Next]_vars

(***************************************************************************)
(* The pairing harness: findTimePairs on every observation, pool and       *)
(* offset within the bounds, and on the example of three stations at       *)
(* 100 s, 104 s and 200 s with an offset of 5 s.                           *)
(***************************************************************************)
PairStations == {AB1234, CD5678}

PairObservations ==
    [station_code : PairStations, rel_proc_path : {None}, mean_dt : 0..MaxTime]

ExampleObs(station_code, mean_dt) ==
    [station_code |-> station_code, rel_proc_path |-> None, mean_dt |-> mean_dt]

MainIdle ==
    /\ fs = [units |-> {}, extra |-> {}]
    /\ file = FileAbsent
    /\ pc = "off"
    /\ err = "none"
    /\ dir_path = ""
    /\ station_list = <<>>
    /\ db = NoObj
    /\ processing_list = <<>>
    /\ dt_bins = <<>>
    /\ bin_idx = 0
    /\ unit_idx = 0
    /\ met_obs_list = <<>>
    /\ unprocessed_observations = <<>>
    /\ ret = "none"
    /\ save_old = FileAbsent
    /\ traj_calls = EmptyMap
    /\ load_log = {}
    /\ prev_outcome = "none"
    /\ file0 = FileAbsent
    /\ interrupted = None
    /\ missing_seen = {}

InitPairs ==
    /\ MainIdle
    /\ FnIdle
    /\ tp_pc = "call"
    /\ tp_found = <<>>
    /\ \/ /\ tp_obs \in PairObservations
          /\ tp_pool \in SeqsUpTo(PairObservations, MaxPool)
          /\ tp_max \in 0..MaxOffset
       \/ /\ tp_obs = ExampleObs(AB1234, 100)
          /\ tp_pool = <<ExampleObs(CD5678, 104), ExampleObs(EF9012, 200)>>
          /\ tp_max = 5

FindTimePairsCall ==
    /\ tp_pc = "call"
    /\ tp_found' = findTimePairs(tp_obs, tp_pool, tp_max)
    /\ tp_pc' = "ret"
    /\ UNCHANGED <<fs, file, mem_vars, hist_vars, tp_obs, tp_pool, tp_max, fn_vars>>

NextPairs == FindTimePairsCall

SpecPairs == InitPairs /\ [][NextPairs]_vars

(***************************************************************************)
(* MeteorObsRMS.__init__, lines 136-183: the estimate of whether the       *)
(* meteor begins and ends inside the field of view.  A pick is             *)
(* [frame, x, y]; data is the list of picks, indexed from 0 in the source  *)
(* and from 1 here.  With "from __future__ import division" the velocities *)
(* are true quotients; a predicted coordinate is kept as <<num, den>>, the *)
(* quotient num/den, and compared by cross-multiplication.  On integer     *)
(* picks the floating point results compare the same way.                  *)
(***************************************************************************)
MaxPicks == 5        \* field-of-view harness: picks of a meteor
MaxCoord == 3        \* field-of-view harness: pixel coordinates are 1..MaxCoord

\* num/den > 0; false when den = 0, the quotient being nan or an infinity that
\* fails the other comparison of its axis
RatGT0(q) == (q[2] > 0 /\ q[1] > 0) \/ (q[2] < 0 /\ q[1] < 0)

\* num/den <= bound
RatLE(q, bound) == (q[2] > 0 /\ q[1] <= bound * q[2]) \/ (q[2] < 0 /\ q[1] >= bound * q[2])

\* num/den < bound
RatLT(q, bound) == (q[2] > 0 /\ q[1] < bound * q[2]) \/ (q[2] < 0 /\ q[1] > bound * q[2])

\* lines 141-152: the centroid predicted 2 frames before the beginning, [x, y]
PreBegin(data, half_index) ==
    LET first == data[1]
        mid == data[half_index + 1]
        df == mid.frame - first.frame
    IN  [x |-> <<first.x * df - 2 * (mid.x - first.x), df>>,
         y |-> <<first.y * df - 2 * (mid.y - first.y), df>>]

\* lines 166-173: the centroid predicted 2 frames after the end, [x, y]; data is
\* self.data as the beginning test left it, half_index the index taken at line 141
PostEnd(data, half_index) ==
    LET last == data[Len(data)]
        mid == data[half_index + 1]
        df == last.frame - mid.frame
    IN  [x |-> <<last.x * df + 2 * (last.x - mid.x), df>>,
         y |-> <<last.y * df + 2 * (last.y - mid.y), df>>]

\* faulty variant of lines 155-156: the x bound is strict as well
InsideBegin_Strict(p, X_res, Y_res) ==
    RatGT0(p.x) /\ RatLT(p.x, X_res) /\ RatGT0(p.y) /\ RatLT(p.y, Y_res)

\* lines 155-156
InsideBegin(p, X_res, Y_res) ==
    RatGT0(p.x) /\ RatLE(p.x, X_res) /\ RatGT0(p.y) /\ RatLT(p.y, Y_res)

\* faulty variant of lines 176-177: the y bound is strict
InsideEnd_StrictY(p, X_res, Y_res) ==
    RatGT0(p.x) /\ RatLE(p.x, X_res) /\ RatGT0(p.y) /\ RatLT(p.y, Y_res)

\* lines 176-177
InsideEnd(p, X_res, Y_res) ==
    RatGT0(p.x) /\ RatLE(p.x, X_res) /\ RatGT0(p.y) /\ RatLE(p.y, Y_res)

\* faulty variant of line 162: the last pick is excluded instead of the first
TrimBegin_Last(data, fov_beg) == IF fov_beg THEN data ELSE SubSeq(data, 1, Len(data) - 1)

\* lines 160-162: self.data = self.data[1:] when the beginning is not inside
TrimBegin(data, fov_beg) == IF fov_beg THEN data ELSE Tail(data)

\* lines 181-183: self.data = self.data[:-1] when the ending is not inside
TrimEnd(data, fov_end) == IF fov_end THEN data ELSE SubSeq(data, 1, Len(data) - 1)

NoPoint == [x |-> <<0, 0>>, y |-> <<0, 0>>]

\* the constructor ended with an uncaught exception
FovRaised(exc, fov_beg, pre) ==
    [raised |-> exc, fov_beg |-> fov_beg, fov_end |-> FALSE, data |-> <<>>,
     pre |-> pre, post |-> NoPoint]

\* MeteorObsRMS.__init__, lines 136-183.  zero_div is what a division by zero does:
\* "raise" with Python floats (ZeroDivisionError), "nan" with numpy floats; the
\* type of the picks' fields is set by loadFTPDetectInfo
EstimateFOV(data, X_res, Y_res, zero_div) ==
    LET half_index == Len(data) \div 2
    IN  IF half_index + 1 > Len(data)
        THEN FovRaised("IndexError", FALSE, NoPoint)
        ELSE LET pre == PreBegin(data, half_index)
             IN  IF pre.x[2] = 0 /\ zero_div = "raise"
                 THEN FovRaised("ZeroDivisionError", FALSE, pre)
                 ELSE LET fov_beg == InsideBegin(pre, X_res, Y_res)
                          data1 == TrimBegin(data, fov_beg)
                      IN  IF half_index + 1 > Len(data1)
                          THEN FovRaised("IndexError", fov_beg, pre)
                          ELSE LET post == PostEnd(data1, half_index)
                               IN  IF post.x[2] = 0 /\ zero_div = "raise"
                                   THEN FovRaised("ZeroDivisionError", fov_beg, pre)
                                   ELSE LET fov_end == InsideEnd(post, X_res, Y_res)
                                        IN  [raised |-> "none", fov_beg |-> fov_beg,
                                             fov_end |-> fov_end,
                                             data |-> TrimEnd(data1, fov_end),
                                             pre |-> pre, post |-> post]

RECURSIVE SumTimeRel(_)
SumTimeRel(data) == IF data = <<>> THEN 0 ELSE Head(data).time_rel + SumTimeRel(Tail(data))

\* faulty variant of lines 131-133: the mean is that of the first and the last pick
MeanTimeRel_Ends(data) == <<data[1].time_rel + data[Len(data)].time_rel, 2>>

\* lines 131-133: np.mean of the picks' time_rel, the seconds mean_dt lies after
\* reference_dt, as <<num, den>>
MeanTimeRel(data) == <<SumTimeRel(data), Len(data)>>

\* MeteorObsRMS.__init__: mean_dt is taken from the picks handed in (lines 131-133),
\* then the field of view is estimated and self.data trimmed (lines 136-183)
MeteorObsRMS_init(data, X_res, Y_res, zero_div) ==
    [mean_dt |-> MeanTimeRel(data)] @@ EstimateFOV(data, X_res, Y_res, zero_div)

(***************************************************************************)
(* The field-of-view harness: the constructor on every track within the    *)
(* bounds (frames increasing by one, or by two at one place; x free, y     *)
(* moving by a constant step) in a frame of MaxCoord x MaxCoord pixels,    *)
(* and on tracks in a frame of 720 x 576 pixels.                           *)
(***************************************************************************)
\* a pick of frame number frame; time_rel is frame/fps, in units of 1/fps
Pick(frame, x, y) == [frame |-> frame, time_rel |-> frame, x |-> x, y |-> y]

\* the tracks of n picks
Tracks(n) ==
    {[i \in 1..n |-> Pick((i - 1) + (IF gap > 0 /\ i > gap THEN 1 ELSE 0), xs[i],
                          y0 + sy * (i - 1))] :
        xs \in [1..n -> 1..MaxCoord], y0 \in 1..MaxCoord, sy \in {-1, 0, 1}, gap \in 0..(n - 1)}

\* tracks of 5 picks in a frame of 720 x 576 that move by 5 pixels a frame on both
\* axes, the frames 0..4 or 0, 10..13: the point before the beginning is predicted
\* at x = -5, 100 or 690 and y = 10, 100 or 546
ExampleFrame(i, g) == (i - 1) + (IF i > 1 THEN g ELSE 0)

ExampleTracks ==
    {[i \in 1..5 |-> Pick(ExampleFrame(i, g), x0 + 5 * ExampleFrame(i, g),
                          y0 + 5 * ExampleFrame(i, g))] :
        x0 \in {5, 110, 700}, y0 \in {20, 110, 556}, g \in {0, 9}}

InitFOV ==
    /\ MainIdle
    /\ TpIdle
    /\ fn_pc = "call"
    /\ fn_result = <<>>
    /\ \/ \E n \in 2..MaxPicks :
             fn_args \in [data : Tracks(n), X_res : {MaxCoord}, Y_res : {MaxCoord}]
       \/ fn_args \in [data : ExampleTracks, X_res : {720}, Y_res : {576}]

MeteorObsRMSCall ==
    /\ fn_pc = "call"
    /\ \E zero_div \in {"raise", "nan"} :
          fn_result' = MeteorObsRMS_init(fn_args.data, fn_args.X_res, fn_args.Y_res, zero_div)
    /\ fn_pc' = "ret"
    /\ UNCHANGED <<fs, file, mem_vars, hist_vars, tp_vars, fn_args>>

NextFOV == MeteorObsRMSCall

SpecFOV == InitFOV /\ [][NextFOV]_vars

(***************************************************************************)
(* The bins harness: generateDatetimeBins on every range and width within  *)
(* the bounds, on a range of 65 days with bins of 30 days, and on the      *)
(* range of a single date with the script's bin_days.                      *)
(***************************************************************************)
MaxSpan == 7         \* bins harness: dt_end - dt_beg is 0..MaxSpan days
MaxWidth == 3        \* bins harness: bin_days is 1..MaxWidth, dt_beg is 0..MaxWidth

InitBins ==
    /\ MainIdle
    /\ TpIdle
    /\ fn_pc = "call"
    /\ fn_result = <<>>
    /\ \/ \E b \in 0..MaxWidth, span \in 0..MaxSpan, w \in 1..MaxWidth :
             fn_args = [dt_beg |-> b, dt_end |-> b + span, bin_days |-> w]
       \/ fn_args = [dt_beg |-> 0, dt_end |-> 65, bin_days |-> BIN_DAYS]
       \/ fn_args = [dt_beg |-> 7127, dt_end |-> 7127, bin_days |-> BIN_DAYS]

\* the script, line 617
GenerateBinsCall ==
    /\ fn_pc = "call"
    /\ fn_result' = generateDatetimeBins(fn_args.dt_beg, fn_args.dt_end, fn_args.bin_days)
    /\ fn_pc' = "ret"
    /\ UNCHANGED <<fs, file, mem_vars, hist_vars, tp_vars, fn_args>>

NextBins == GenerateBinsCall

SpecBins == InitBins /\ [][NextBins]_vars

(***************************************************************************)
(* The discovery harness: findUnprocessedFolders on the station AB1234     *)
(* (and CD5678, which holds no folder) with folder names that parse and    *)
(* names that do not, and a ledger that records some of them.              *)
(***************************************************************************)
MaxNights == 2       \* discovery harness: folders in the station directory
MaxRecorded == 2     \* discovery harness: paths the ledger records for the station

NightNames ==
    { <<"AB1234", "20190707", "000000", "000000", "detected">>,
      <<"AB1234", "19991231", "000000", "000000", "detected">>,
      <<"junk">>,                                   \* one token
      <<"AB1234", "20190707">>,                     \* two tokens
      <<"AB1234", "20191301", "000000", "000000">>, \* month 13
      <<"AB1234", "20190707", "250000", "000000">>  \* hour 25
    }

\* the sequences of at most n members of S without repetition
ArrangementsUpTo(S, n) ==
    {q \in SeqsUpTo(S, n) : \A i, j \in 1..Len(q) : q[i] = q[j] => i = j}

DiscoveryLedgers ==
    {NewDatabaseJSON(JoinPath("/data/rms", JSON_DB_NAME))} \cup
    {[NewDatabaseJSON(JoinPath("/data/rms", JSON_DB_NAME)) EXCEPT
         !.processed_dirs = (AB1234 :> [i \in 1..Len(q) |-> JoinPath(AB1234, q[i])])] :
        q \in ArrangementsUpTo(NightNames, MaxRecorded)}

InitDiscovery ==
    /\ MainIdle
    /\ TpIdle
    /\ fn_pc = "call"
    /\ fn_result = <<>>
    /\ \E stations \in ArrangementsUpTo({AB1234, CD5678}, 2),
          names \in ArrangementsUpTo(NightNames, MaxNights),
          d \in DiscoveryLedgers :
          fn_args = [stations |-> stations, db |-> d,
                     order |-> [i \in 1..Len(names) |->
                                   Unit(AB1234, names[i], TRUE, {}, "ok", <<>>)]]

\* RMSDataHandle.__init__, line 215
FindUnprocessedCall ==
    /\ fn_pc = "call"
    /\ fn_result' = findUnprocessedFolders(fn_args.stations, fn_args.db, <<>>, fn_args.order)
    /\ fn_pc' = "ret"
    /\ UNCHANGED <<fs, file, mem_vars, hist_vars, tp_vars, fn_args>>

NextDiscovery == FindUnprocessedCall

SpecDiscovery == InitDiscovery /\ [][NextDiscovery]_vars

(***************************************************************************)
(* Workers marking observations on one shared database object: each call   *)
(* of addProcessedDir is the membership test of lines 70-71 followed by    *)
(* the append of line 72, and nothing holds the object between the two.    *)
(***************************************************************************)
MaxWorkers == 2

MaxCalls == 2

Workers == 1..MaxWorkers

\* the observations the workers mark: two of one folder, one of another station
MarkedObs ==
    { [station_code |-> AB1234, rel_proc_path |-> JoinPath(AB1234, <<"20190707">>), mean_dt |-> 0],
      [station_code |-> AB1234, rel_proc_path |-> JoinPath(AB1234, <<"20190707">>), mean_dt |-> 1],
      [station_code |-> CD5678, rel_proc_path |-> JoinPath(CD5678, <<"20190707">>), mean_dt |-> 0] }

\* lines 70-71: the station is known and the path is not in its list
addProcessedDir_Test(d, station_name, rel_proc_path) ==
    /\ station_name \in DOMAIN d.processed_dirs
    /\ ~InSeq(rel_proc_path, d.processed_dirs[station_name])

\* line 72: self.processed_dirs[station_name].append(rel_proc_path)
addProcessedDir_Append(d, station_name, rel_proc_path) ==
    [d EXCEPT !.processed_dirs[station_name] = Append(@, rel_proc_path)]

\* fn_args.todo[w] are the observations worker w still has to mark, fn_args.marked the
\* observations whose call has returned, fn_result is the shared database object, whose
\* stations were registered by the discovery (lines 251-252)
InitWorkers ==
    /\ MainIdle
    /\ TpIdle
    /\ fn_pc = [w \in Workers |-> "idle"]
    /\ fn_result = [NewDatabaseJSON(JoinPath("/data/rms", JSON_DB_NAME)) EXCEPT
                       !.processed_dirs = (AB1234 :> <<>>) @@ (CD5678 :> <<>>)]
    /\ \E todo \in [Workers -> SeqsUpTo(MarkedObs, MaxCalls)] :
          fn_args = [todo |-> todo, marked |-> {}]

Returned(w) ==
    [fn_args EXCEPT !.todo[w] = Tail(@), !.marked = @ \cup {Head(fn_args.todo[w])}]

\* markObservationAsProcessed (line 465) entering addProcessedDir: lines 70-71
WorkerTest(w) ==
    /\ fn_pc[w] = "idle"
    /\ fn_args.todo[w] # <<>>
    /\ LET met_obs == Head(fn_args.todo[w])
       IN  IF addProcessedDir_Test(fn_result, met_obs.station_code, met_obs.rel_proc_path)
           THEN /\ fn_pc' = [fn_pc EXCEPT ![w] = "append"]
                /\ UNCHANGED fn_args
           ELSE /\ fn_args' = Returned(w)
                /\ UNCHANGED fn_pc
    /\ UNCHANGED <<fs, file, mem_vars, hist_vars, tp_vars, fn_result>>

\* line 72, then the call returns
WorkerAppend(w) ==
    /\ fn_pc[w] = "append"
    /\ LET met_obs == Head(fn_args.todo[w])
       IN  fn_result' = addProcessedDir_Append(fn_result, met_obs.station_code,
                                               met_obs.rel_proc_path)
    /\ fn_pc' = [fn_pc EXCEPT ![w] = "idle"]
    /\ fn_args' = Returned(w)
    /\ UNCHANGED <<fs, file, mem_vars, hist_vars, tp_vars>>

NextWorkers == \E w \in Workers : WorkerTest(w) \/ WorkerAppend(w)

SpecWorkers == InitWorkers /\ [][NextWorkers]_vars

\* findUnprocessedFolders, lines 243 and 272-273: skipped_dirs, the number of entries
\* found in the processed list of their station
RECURSIVE skipped_dirs(_, _, _)
skipped_dirs(stations, d, order) ==
    IF stations = <<>>
    THEN 0
    ELSE LET station_name == Head(stations)
             d1 == RegisterStation(d, station_name)
             nights == SelectSeq(order, LAMBDA u : u.station = station_name)
             skipped == SelectSeq(nights, LAMBDA u :
                            ~NotInProcessedDirs(d1, station_name,
                                                JoinPath(station_name, u.night)))
         IN  Len(skipped) + skipped_dirs(Tail(stations), d1, order)

(***************************************************************************)
(* The ledger object on its own: the constructor with its load, calls of   *)
(* addProcessedDir, and save, on a disk with two places a ledger file can  *)
(* lie at.  A document on the disk holds the db_file_path of the object    *)
(* that wrote it (json.dumps of the whole __dict__, line 64), which is the *)
(* path the data directory had when it was written.                        *)
(***************************************************************************)
LedgerPaths == {JoinPath("/data/rms", JSON_DB_NAME), JoinPath("/mnt/rms", JSON_DB_NAME)}

LedgerLists ==
    {EmptyMap, AB1234 :> <<>>, AB1234 :> <<JoinPath(AB1234, <<"20190707">>)>>}

LedgerFiles ==
    {FileAbsent, FilePartial} \cup
    {JsonDump([NewDatabaseJSON(p) EXCEPT !.processed_dirs = pd]) :
        p \in LedgerPaths, pd \in LedgerLists}

\* fn_args is the constructor's argument and the disk it finds, fn_result the object
\* and the disk as they are now
InitLedger ==
    /\ MainIdle
    /\ TpIdle
    /\ fn_pc = "new"
    /\ \E path \in LedgerPaths, files \in [LedgerPaths -> LedgerFiles] :
          /\ fn_args = [db_file_path |-> path, files |-> files]
          /\ fn_result = [db |-> NoObj, files |-> files, call |-> None]

\* DatabaseJSON.__init__, lines 37-47
LedgerConstruct ==
    /\ fn_pc = "new"
    /\ LET r == DatabaseJSON_load(NewDatabaseJSON(fn_args.db_file_path),
                                  fn_result.files[fn_args.db_file_path])
       IN  /\ fn_result' = [fn_result EXCEPT !.db = r.db]
           /\ fn_pc' = IF r.raised THEN "error" ELSE "loaded"
    /\ UNCHANGED <<fs, file, mem_vars, hist_vars, tp_vars, fn_args>>

\* lines 251-252: a station is registered
LedgerRegister ==
    /\ fn_pc = "loaded"
    /\ AB1234 \notin DOMAIN fn_result.db.processed_dirs
    /\ fn_result' = [fn_result EXCEPT !.db = RegisterStation(@, AB1234)]
    /\ UNCHANGED <<fs, file, mem_vars, hist_vars, tp_vars, fn_pc, fn_args>>

\* a call of DatabaseJSON.addProcessedDir (lines 67-72); fn_result.call keeps the
\* arguments of the last call and the object before and after it
LedgerAddProcessedDir ==
    /\ fn_pc = "loaded"
    /\ \E station_name \in {AB1234, CD5678}, night \in {<<"20190707">>, <<"20190806">>} :
          LET rel_proc_path == JoinPath(station_name, night)
              d == addProcessedDir(fn_result.db, station_name, rel_proc_path)
          IN  fn_result' = [fn_result EXCEPT
                               !.db = d,
                               !.call = Some([station_name |-> station_name,
                                              rel_proc_path |-> rel_proc_path,
                                              before |-> fn_result.db, after |-> d])]
    /\ UNCHANGED <<fs, file, mem_vars, hist_vars, tp_vars, fn_pc, fn_args>>

\* DatabaseJSON.save, lines 59-64: the file at self.db_file_path gets the document
LedgerSave ==
    /\ fn_pc = "loaded"
    /\ fn_result' = [fn_result EXCEPT !.files[fn_result.db.db_file_path] =
                                          JsonDump(fn_result.db)]
    /\ fn_pc' = "saved"
    /\ UNCHANGED <<fs, file, mem_vars, hist_vars, tp_vars, fn_args>>

NextLedger == LedgerConstruct \/ LedgerRegister \/ LedgerAddProcessedDir \/ LedgerSave

SpecLedger == InitLedger /\ [][NextLedger]_vars

(***************************************************************************)
(* Properties.                                                             *)
(***************************************************************************)
InRun == pc \in Running \cup {"done", "error"}

NoDuplicates(seq) == \A i, j \in 1..Len(seq) : seq[i] = seq[j] => i = j

\* C1: a kill at any point of save() leaves on disk either the complete content the
\* file had when save() was entered or the complete new document, never an empty or
\* partly written file.
C1_SaveAtomic ==
    [][(pc \in {"save_open", "save_write"} /\ pc' = "crashed")
          => (file' = save_old \/ file' = JsonDump(db))]_vars

\* C2: within a run no step (loading the ledger, registering a station, marking a
\* folder, saving) removes a station key or a path from processed_dirs.
C2_ProcessedMonotone ==
    [][(pc \in Running /\ pc' \in Running \cup {"done", "error"})
          => \A s \in DOMAIN db.processed_dirs :
                /\ s \in DOMAIN db'.processed_dirs
                /\ Range(db.processed_dirs[s]) \subseteq Range(db'.processed_dirs[s])]_vars

\* a run that loaded recorded paths from the file has registered its stations and
\* still holds the paths
C2_Witness ==
    /\ pc = "discovered"
    /\ file0.kind = "json"
    /\ \E s \in DOMAIN file0.obj.processed_dirs :
          /\ file0.obj.processed_dirs[s] # <<>>
          /\ s \in Range(station_list)
          /\ db.processed_dirs[s] = file0.obj.processed_dirs[s]

\* C3: marking a (station, path) that is already recorded leaves the ledger exactly
\* as it is, and no path is listed twice under a station.
C3_MarkIdempotent ==
    InRun =>
        \A s \in DOMAIN db.processed_dirs :
            /\ NoDuplicates(db.processed_dirs[s])
            /\ \A i \in 1..Len(db.processed_dirs[s]) :
                  addProcessedDir(db, s, db.processed_dirs[s][i]) = db

\* the correlator has marked a folder once per observation, two of which come from
\* the same folder
C3_Witness ==
    /\ pc = "save_open"
    /\ ret = "bin"
    /\ \E i, j \in 1..Len(unprocessed_observations) :
          /\ i < j
          /\ unprocessed_observations[i].rel_proc_path = unprocessed_observations[j].rel_proc_path
          /\ unprocessed_observations[i].station_code = unprocessed_observations[j].station_code
          /\ InSeq(unprocessed_observations[i].rel_proc_path,
                   db.processed_dirs[unprocessed_observations[i].station_code])

\* C4: every key handed to addTrajectory is a key of trajectories afterwards, and it
\* holds the first summary handed in for it.
C4_RecordFirstWins ==
    InRun =>
        \A key \in DOMAIN traj_calls :
            /\ key \in DOMAIN db.trajectories
            /\ db.trajectories[key] = traj_calls[key]

\* C5: loading when the ledger file does not exist gives the empty ledger, raises
\* nothing and creates no file.
C5_LoadMissingFile ==
    [][(pc = "stations" /\ ~PathExists(file) /\ pc' # "crashed")
          => /\ pc' = "db"
             /\ err' = "none"
             /\ db'.processed_dirs = EmptyMap
             /\ db'.trajectories = EmptyMap
             /\ file' = FileAbsent]_vars

\* the ledger was loaded while no file existed
C5_Witness ==
    /\ pc = "db"
    /\ file = FileAbsent
    /\ db = NewDatabaseJSON(JoinPath(dir_path, JSON_DB_NAME))

\* C6: a ledger file that exists and does not parse ends the run with the error:
\* no folder is discovered or loaded and the file is left as it was.
C6_MalformedFatal ==
    /\ [][(pc = "stations" /\ PathExists(file) /\ ~JsonParses(file) /\ pc' # "crashed")
             => /\ pc' = "error"
                /\ err' = "JSONDecodeError"
                /\ file' = file]_vars
    /\ [](err = "JSONDecodeError"
             => /\ pc = "error"
                /\ file = file0
                /\ processing_list = <<>>
                /\ met_obs_list = <<>>
                /\ unprocessed_observations = <<>>
                /\ db.processed_dirs = EmptyMap)

\* a run has ended on a file a killed save() left behind
C6_Witness ==
    /\ pc = "error"
    /\ err = "JSONDecodeError"
    /\ file \in {FileEmpty, FilePartial}
    /\ prev_outcome = "crashed"

\* whether the ledger document f records the path under the station
FileRecords(f, station_name, night_path_rel) ==
    /\ f.kind = "json"
    /\ station_name \in DOMAIN f.obj.processed_dirs
    /\ InSeq(night_path_rel, f.obj.processed_dirs[station_name])

\* whether the processing list holds the folder
Listed(plist, station_name, night_path_rel) ==
    \E i \in 1..Len(plist) :
        plist[i].station_name = station_name /\ plist[i].night_path_rel = night_path_rel

\* C7: after discovery, a folder entry under an accepted station is in the processing
\* list if and only if the loaded ledger does not record its path under the station.
C7_FindUnprocessedExact ==
    pc = "discovered" =>
        \A u \in fs.units :
            u.station \in Range(station_list) =>
                (Listed(processing_list, u.station, JoinPath(u.station, u.night))
                    <=> ~FileRecords(file0, u.station, JoinPath(u.station, u.night)))

\* discovery has listed one folder and skipped another, recorded one
C7_Witness ==
    /\ pc = "discovered"
    /\ \E u, v \in fs.units :
          /\ Listed(processing_list, u.station, JoinPath(u.station, u.night))
          /\ v.station \in Range(station_list)
          /\ FileRecords(file0, v.station, JoinPath(v.station, v.night))
          /\ ~Listed(processing_list, v.station, JoinPath(v.station, v.night))

\* the station code pattern on the whole name: two uppercase letters, then four
\* characters each an uppercase letter or a digit
IsStationCode(name) ==
    /\ Len(name) = 6
    /\ \A i \in 1..2 : name[i] \in UpperCase
    /\ \A i \in 3..6 : name[i] \in UpperCase \cup Digits

\* C8: a top-level entry is accepted as a station if and only if it is a directory
\* and its whole name is a station code.
C8_StationFilter ==
    (InRun /\ pc # "start") =>
        \A e \in RootEntries(fs) :
            e.name \in Range(station_list) <=> (e.isdir /\ IsStationCode(e.name))

C10_RunIdempotent ==
    (prev_outcome = "done" /\ InRun) =>
        /\ processing_list = <<>>
        /\ pc = "done" => file = file0

\* the (station, path) pairs a ledger file records
RecordedPairs(f) ==
    UNION {{<<s, f.obj.processed_dirs[s][i]>> : i \in 1..Len(f.obj.processed_dirs[s])} :
              s \in DOMAIN f.obj.processed_dirs}

\* the folder entries of the accepted stations that the ledger file start does not record
ToProcess(f, start) ==
    {u \in f.units :
        /\ \E e \in RootEntries(f) : e.name = u.station /\ e.isdir /\ ReMatchStation(e.name)
        /\ <<u.station, JoinPath(u.station, u.night)>> \notin RecordedPairs(start)}

\* the pairs on disk after a run that starts on the ledger file start, is not
\* interrupted and ends normally: those of start, and every folder to process that
\* falls in a bin (it has no parseable date, or one after 2000) and lacks a data file
\* or gives an observation
UninterruptedResult(f, start) ==
    RecordedPairs(start) \cup
        {<<u.station, JoinPath(u.station, u.night)>> : u \in {v \in ToProcess(f, start) :
            /\ ParseNightDt(v.night) = None \/ ParseNightDt(v.night)[1] > 0
            /\ MissingDataFiles(v) \/ initMeteorObs(v) # <<>>}}

\* C11: a run started on the ledger that a run killed between two bins (after the
\* save that follows a bin, before the next bin begins) left on disk ends with the
\* same recorded set as the uninterrupted run from the killed run's starting ledger;
\* and every run that ends normally ends with the uninterrupted result of its own
\* starting ledger.
C11_CrashRecovery ==
    pc = "done" =>
        /\ RecordedPairs(file) = UninterruptedResult(fs, file0)
        /\ interrupted # None =>
              RecordedPairs(file) = UninterruptedResult(fs, interrupted[1])

\* a run has ended normally after a run that was killed between two bins; the killed
\* run had recorded folders and the resumed run recorded further ones
C11_Witness ==
    /\ pc = "done"
    /\ interrupted # None
    /\ RecordedPairs(file0) # RecordedPairs(interrupted[1])
    /\ RecordedPairs(file) # RecordedPairs(file0)

\* whether entry i of the processing list is a folder without one of its data files
EntryMissesFiles(i) ==
    LET u == UnitAt(fs, processing_list[i].night_path_rel)
    IN  u.isdir /\ MissingDataFiles(u)

\* C12: a folder that lacks a data file is marked processed in the run that loads it,
\* gives no observation, and no later run lists it as unprocessed.
C12_MissingUnitTerminal ==
    /\ InRun =>
          \A x \in load_log :
              EntryMissesFiles(x[2]) =>
                  /\ InSeq(processing_list[x[2]].night_path_rel,
                           db.processed_dirs[processing_list[x[2]].station_name])
                  /\ \A k \in 1..Len(met_obs_list) :
                        met_obs_list[k].rel_proc_path # processing_list[x[2]].night_path_rel
    /\ pc = "discovered" =>
          \A p \in missing_seen : ~Listed(processing_list, p[1], p)

\* C13: once the loader has found a folder without its data files and gone on to the
\* next entry, the ledger file on disk records the folder.
C13_MissingCheckpointed ==
    pc = "load" => \A p \in missing_seen : FileRecords(file, p[1], p)

\* the loop over the bins stands between two bins or after the last one
AfterBin ==
    /\ bin_idx > 1
    /\ \/ pc \in {"bin", "done"}
       \/ pc = "load" /\ unit_idx = 1

\* C14: when a bin is finished and before the first folder of the next bin is loaded,
\* the folder of every observation of the finished bin is marked processed and the
\* ledger file holds the ledger of the run, these marks included.
C14_PerBinCheckpoint ==
    AfterBin =>
        /\ file = JsonDump(db)
        /\ \A k \in 1..Len(unprocessed_observations) :
              FileRecords(file, unprocessed_observations[k].station_code,
                          unprocessed_observations[k].rel_proc_path)

\* the loader stands at the first folder of the second bin and the first bin had
\* observations
C14_Witness ==
    /\ pc = "load"
    /\ unit_idx = 1
    /\ bin_idx = 2
    /\ unprocessed_observations # <<>>

\* the bins of this run whose folders the loader has gone through
LoadedBins == {b \in 1..Len(dt_bins) : b < bin_idx \/ (b = bin_idx /\ pc = "correlate")}

\* C20: a folder whose name gives no datetime is excluded by no time range: in every
\* bin the loader is called with, its listing is read.
C20_NoTimestampNeverFiltered ==
    InRun =>
        \A i \in 1..Len(processing_list) :
            processing_list[i].night_dt = None =>
                /\ \A b \in LoadedBins : <<b, i>> \in load_log
                /\ (pc = "load" /\ i < unit_idx) => <<bin_idx, i>> \in load_log

\* the loader has gone through a bin made from a dated folder, and has read the
\* listing of a folder without a datetime in it
C20_Witness ==
    /\ pc = "correlate"
    /\ \E i, j \in 1..Len(processing_list) :
          /\ processing_list[i].night_dt = None
          /\ <<bin_idx, i>> \in load_log
          /\ processing_list[j].night_dt # None
          /\ dt_bins[bin_idx] = <<processing_list[j].night_dt[1], processing_list[j].night_dt[1]>>

\* the constructor has returned an observation
Constructed == fn_pc = "ret" /\ fn_result.raised = "none"

\* the point (x0 - 2*dx, y0 - 2*dy) with (dx, dy) = (x[h]-x[0], y[h]-y[0]) /
\* (frame[h]-frame[0]) and h = n \div 2, of the picks handed to the constructor; each
\* coordinate as <<num, den>>
ExtrapolatedBegin ==
    LET data == fn_args.data
        h == Len(data) \div 2
        df == data[h + 1].frame - data[1].frame
    IN  [x |-> <<data[1].x * df - 2 * (data[h + 1].x - data[1].x), df>>,
         y |-> <<data[1].y * df - 2 * (data[h + 1].y - data[1].y), df>>]

\* C15 as stated: fov_beg is true if and only if the point predicted two frames
\* before the first pick has 0 < x < W and 0 < y < H.
C15_BeginStrict ==
    Constructed =>
        (fn_result.fov_beg <=>
            /\ RatGT0(ExtrapolatedBegin.x) /\ RatLT(ExtrapolatedBegin.x, fn_args.X_res)
            /\ RatGT0(ExtrapolatedBegin.y) /\ RatLT(ExtrapolatedBegin.y, fn_args.Y_res))

\* C15, amended: fov_beg is true if and only if the point predicted two frames
\* before the first pick has 0 < x <= W and 0 < y < H: the upper bound is closed on
\* x and strict on y.
C15_BeginClosedX ==
    Constructed =>
        (fn_result.fov_beg <=>
            /\ RatGT0(ExtrapolatedBegin.x) /\ RatLE(ExtrapolatedBegin.x, fn_args.X_res)
            /\ RatGT0(ExtrapolatedBegin.y) /\ RatLT(ExtrapolatedBegin.y, fn_args.Y_res))

\* an observation whose predicted point has x = W exactly and y inside begins inside
C15_Witness ==
    /\ Constructed
    /\ ExtrapolatedBegin.x[1] = fn_args.X_res * ExtrapolatedBegin.x[2]
    /\ RatGT0(ExtrapolatedBegin.y) /\ RatLT(ExtrapolatedBegin.y, fn_args.Y_res)
    /\ fn_result.fov_beg

KeptPicks(lo, hi) == SubSeq(fn_args.data, lo, hi)

\* C17: the picks of the observation are those handed in, without the first if and
\* only if fov_beg is false and without the last if and only if fov_end is false,
\* in their order; in a frame of 720 x 576 a track whose point before the beginning
\* is predicted at (-5, 10) loses its first pick and one predicted at (100, 100)
\* (its end at (140, 140)) keeps all picks.
C17_TrimMatchesFlags ==
    Constructed =>
        /\ fn_result.data = KeptPicks(IF fn_result.fov_beg THEN 1 ELSE 2,
                                      IF fn_result.fov_end THEN Len(fn_args.data)
                                      ELSE Len(fn_args.data) - 1)
        /\ (fn_args.X_res = 720 /\ fn_args.data[1].x = 5 /\ fn_args.data[1].y = 20) =>
              (~fn_result.fov_beg /\ fn_result.data[1] = fn_args.data[2])
        /\ (fn_args.X_res = 720 /\ fn_args.data[1].x = 110 /\ fn_args.data[1].y = 110) =>
              (fn_result.fov_beg /\ fn_result.data = fn_args.data)

\* an observation that lost its first and its last pick and kept the others
C17_Witness ==
    /\ Constructed
    /\ ~fn_result.fov_beg
    /\ ~fn_result.fov_end
    /\ Len(fn_result.data) = Len(fn_args.data) - 2
    /\ Len(fn_result.data) >= 3
    /\ fn_result.data[1] = fn_args.data[2]

\* C18: for dt_beg <= dt_end and a width w the bins are ordered, the first begins at
\* dt_beg, the last ends at dt_end, each bin begins where the one before it ends, and
\* every bin but the last is exactly w days wide (the last at most w); 65 days with
\* w = 30 give exactly the 3 bins (0, 30), (30, 60), (60, 65).
C18_BinsCoverRange ==
    fn_pc = "ret" =>
        LET bins == fn_result
            n == Len(bins)
        IN  /\ n >= 1
            /\ bins[1][1] = fn_args.dt_beg
            /\ bins[n][2] = fn_args.dt_end
            /\ \A i \in 1..n : bins[i][1] <= bins[i][2]
            /\ \A i \in 2..n : bins[i][1] = bins[i - 1][2]
            /\ \A i \in 1..(n - 1) : bins[i][2] - bins[i][1] = fn_args.bin_days
            /\ bins[n][2] - bins[n][1] <= fn_args.bin_days
            /\ (fn_args.dt_beg = 0 /\ fn_args.dt_end = 65 /\ fn_args.bin_days = 30) =>
                  bins = << <<0, 30>>, <<30, 60>>, <<60, 65>> >>

\* the bins of a range of 65 days with bins of 30 days have been made, the last one
\* 5 days wide
C18_Witness ==
    /\ fn_pc = "ret"
    /\ fn_args.dt_end - fn_args.dt_beg = 65
    /\ fn_args.bin_days = 30
    /\ Len(fn_result) = 3
    /\ fn_result[3] = <<60, 65>>

\* C19: every range with dt_beg <= dt_end gets at least one bin, a range shorter
\* than the bin width and the range of a single date included, and the loader's range
\* test lets a folder dated dt_beg or dt_end into one of the bins.
C19_AtLeastOneBin ==
    fn_pc = "ret" =>
        /\ Len(fn_result) >= 1
        /\ \A t \in {fn_args.dt_beg, fn_args.dt_end} :
              \E i \in 1..Len(fn_result) : ~OutsideRange(Some(t), fn_result[i])

\* the bins of the range of a single date have been made: one bin of that date
C19_Witness ==
    /\ fn_pc = "ret"
    /\ fn_args.dt_beg = fn_args.dt_end
    /\ fn_args.bin_days = BIN_DAYS
    /\ fn_result = << <<fn_args.dt_beg, fn_args.dt_beg>> >>

\* the "%Y%m%d" and "%H%M%S" tokens that are a date and a time of day
ValidDateTokens == {"19991231", "20190707", "20190806", "20190905"}

ValidTimeTokens == {"000000"}

\* the folder name has too few tokens, or tokens 1 and 2 are no YYYYMMDD_HHMMSS
NameUnparseable(night) ==
    \/ Len(night) < 3
    \/ night[2] \notin ValidDateTokens
    \/ night[3] \notin ValidTimeTokens

\* the entries of the returned processing list for a path
EntriesOf(plist, night_path_rel) ==
    {i \in 1..Len(plist) : plist[i].night_path_rel = night_path_rel}

\* C21: discovery returns for every input; a folder of a listed station whose name
\* does not parse as a timestamp is in the processing list, once and with
\* night_dt = None, if and only if the ledger does not record its path.
C21_UnparsedKept ==
    fn_pc = "ret" =>
        \A k \in 1..Len(fn_args.order) :
            LET u == fn_args.order[k]
                path == JoinPath(u.station, u.night)
                recorded == /\ u.station \in DOMAIN fn_args.db.processed_dirs
                            /\ InSeq(path, fn_args.db.processed_dirs[u.station])
            IN  (u.station \in Range(fn_args.stations) /\ NameUnparseable(u.night)) =>
                    /\ recorded => EntriesOf(fn_result.processing_list, path) = {}
                    /\ ~recorded =>
                          /\ Cardinality(EntriesOf(fn_result.processing_list, path)) = 1
                          /\ \A i \in EntriesOf(fn_result.processing_list, path) :
                                fn_result.processing_list[i].night_dt = None

\* discovery has listed a folder with too few tokens and one with an invalid date,
\* both with night_dt = None
C21_Witness ==
    /\ fn_pc = "ret"
    /\ \E i, j \in 1..Len(fn_result.processing_list) :
          /\ Len(fn_result.processing_list[i].night_path_rel[2]) < 3
          /\ fn_result.processing_list[i].night_dt = None
          /\ Len(fn_result.processing_list[j].night_path_rel[2]) >= 3
          /\ fn_result.processing_list[j].night_path_rel[2][2] \notin ValidDateTokens
          /\ fn_result.processing_list[j].night_dt = None

\* C22: after discovery every accepted station is a key of the ledger object's
\* processed_dirs, a station without folders and a station whose folders are all
\* recorded included; the lists of the stations the loaded ledger held are as loaded
\* and a station that was not in it has the empty list.
C22_StationsRegistered ==
    pc = "discovered" =>
        /\ \A s \in Range(station_list) : s \in DOMAIN db.processed_dirs
        /\ \A s \in DOMAIN db.processed_dirs :
              IF s \in DOMAIN file0.obj.processed_dirs
              THEN db.processed_dirs[s] = file0.obj.processed_dirs[s]
              ELSE s \in Range(station_list) /\ db.processed_dirs[s] = <<>>

\* discovery has registered a station without folders, and kept the list of a
\* station whose folders are all recorded
C22_Witness ==
    /\ pc = "discovered"
    /\ processing_list = <<>>
    /\ \E s, t \in Range(station_list) :
          /\ \A u \in fs.units : u.station # s
          /\ db.processed_dirs[s] = <<>>
          /\ \E u \in fs.units : u.station = t
          /\ db.processed_dirs[t] # <<>>
          /\ db.processed_dirs[t] = file0.obj.processed_dirs[t]

\* C23: a run ends with an error only when the ledger file is unreadable; with a
\* readable ledger every set of discovered folders, one in which no folder has a
\* parseable datetime included, is run through to the end.
C23_ErrorOnlyUnreadableLedger ==
    pc = "error" => (err = "JSONDecodeError" /\ PathExists(file0) /\ ~JsonParses(file0))

\* C24: when discovery returns an empty processing list the script ends at once: no
\* bins are made, no folder is loaded, nothing is handed to pairing or to the solver,
\* and the ledger object and the ledger file stay as they are.
C24_NoOpRun ==
    [][(pc = "discovered" /\ processing_list = <<>> /\ pc' # "crashed")
          => /\ pc' = "done"
             /\ err' = "none"
             /\ dt_bins' = <<>>
             /\ load_log' = {}
             /\ met_obs_list' = <<>>
             /\ unprocessed_observations' = <<>>
             /\ traj_calls' = EmptyMap
             /\ db' = db
             /\ file' = file]_vars

\* a run has ended with nothing to process on a ledger that records folders
C24_Witness ==
    /\ pc = "done"
    /\ processing_list = <<>>
    /\ dt_bins = <<>>
    /\ fs.units # {}
    /\ file = file0
    /\ RecordedPairs(file) # {}

\* C25: an observation built from at least 2 picks with strictly increasing frames
\* holds at least 2 picks after the trimming.
C25_AtLeastTwoPicks ==
    Constructed => Len(fn_result.data) >= 2

\* C26: mean_dt is the mean of the picks' time_rel after reference_dt, and it lies
\* between the time of the first and the time of the last pick the observation holds.
C26_MeanWithinHeld ==
    Constructed =>
        /\ fn_result.mean_dt = <<SumTimeRel(fn_args.data), Len(fn_args.data)>>
        /\ fn_result.data # <<>> =>
              /\ fn_result.data[1].time_rel * fn_result.mean_dt[2] <= fn_result.mean_dt[1]
              /\ fn_result.mean_dt[1] <=
                    fn_result.data[Len(fn_result.data)].time_rel * fn_result.mean_dt[2]

WorkersDone ==
    \A w \in Workers : fn_pc[w] = "idle" /\ fn_args.todo[w] = <<>>

Occurrences(x, seq) == Cardinality({i \in 1..Len(seq) : seq[i] = x})

\* C27: when several workers have marked their observations on the shared database,
\* in any interleaving, every marked (station, path) is in processed_dirs exactly once.
C27_MarksSerialized ==
    WorkersDone =>
        \A met_obs \in fn_args.marked :
            Occurrences(met_obs.rel_proc_path,
                        fn_result.processed_dirs[met_obs.station_code]) = 1

\* C28: a folder that is marked processed in the ledger of the run is not loaded again
\* in a later bin of the same run: the loader reads the listing only of folders that the
\* ledger does not hold.
C28_NoReload ==
    [][\A p \in load_log' \ load_log :
          NotInProcessedDirs(db, processing_list[p[2]].station_name,
                             processing_list[p[2]].night_path_rel)]_vars

\* the folder of entry i holds both data files and a platepars file without a record
EmptyCalibration(i) ==
    LET u == UnitAt(fs, processing_list[i].night_path_rel)
    IN  u.isdir /\ ~MissingDataFiles(u) /\ u.platepars = "empty"

\* C29: when the run is done, every folder it loaded whose platepars file holds no
\* record (both data files are there) is marked processed in the ledger, in memory and
\* in the file, so that the next run does not list it.
C29_EmptyCalibrationMarked ==
    pc = "done" =>
        \A i \in 1..Len(processing_list) :
            (EmptyCalibration(i) /\ \E b \in 1..Len(dt_bins) : <<b, i>> \in load_log) =>
                /\ ~NotInProcessedDirs(db, processing_list[i].station_name,
                                       processing_list[i].night_path_rel)
                /\ <<processing_list[i].station_name, processing_list[i].night_path_rel>>
                       \in RecordedPairs(file)

\* the correlator has returned for a bin and finish() is saving the ledger
CorrelatorReturned == pc \in {"save_open", "save_write"} /\ ret = "bin"

\* the candidate groups of the bin for which addTrajectory was not called
FailedSeeds ==
    {i \in PairedSeeds(unprocessed_observations) :
        unprocessed_observations[i].mean_dt \notin DOMAIN traj_calls}

ParsedDts == {processing_list[i].night_dt[1] :
                 i \in {j \in 1..Len(processing_list) : processing_list[j].night_dt # None}}

\* C31: the bins are made over the range from the earliest to the latest datetime of all
\* the listed folders whose name gives a datetime, and when the run is done each of these
\* folders has been loaded in some bin.
C31_RangeSpansParsed ==
    (InRun /\ dt_bins # <<>>) =>
        /\ dt_bins[1][1] = Min(ParsedDts)
        /\ dt_bins[Len(dt_bins)][2] = Max(ParsedDts)
        /\ pc = "done" =>
              \A i \in 1..Len(processing_list) :
                  processing_list[i].night_dt # None =>
                      \E b \in 1..Len(dt_bins) : <<b, i>> \in load_log

\* the bins of the run in which the listing of folder i was read
BinsOf(i) == {b \in 1..Len(dt_bins) : <<b, i>> \in load_log}

\* C32: a listed folder whose name gives a datetime is loaded in at most one bin of the
\* run, also when its datetime is the end of one bin and the begin of the next, and when
\* the run is done it has been loaded in exactly one.
C32_LoadedInOneBin ==
    InRun =>
        \A i \in 1..Len(processing_list) :
            processing_list[i].night_dt # None =>
                /\ Cardinality(BinsOf(i)) <= 1
                /\ pc = "done" => Cardinality(BinsOf(i)) = 1

\* two values <<num, den>> are the same number (a zero denominator is nan)
RatEq(p, q) == IF p[2] = 0 \/ q[2] = 0 THEN p[2] = q[2] ELSE p[1] * q[2] = q[1] * p[2]

\* C33: the point predicted after the end is the last pick plus 2 frames of the velocity
\* between pick h = n \div 2 and pick n-1 of the picks handed to the constructor, also
\* when the first pick was dropped.
C33_EndVelocityOverInput ==
    Constructed =>
        LET expected == PostEnd(fn_args.data, Len(fn_args.data) \div 2)
        IN  /\ RatEq(fn_result.post.x, expected.x)
            /\ RatEq(fn_result.post.y, expected.y)

\* C34: when a run is done, a run that found nothing to process included, every accepted
\* station of the data directory is a key of processed_dirs in the ledger file.
C34_StationsInFile ==
    pc = "done" =>
        \A s \in Range(station_list) :
            /\ PathExists(file)
            /\ JsonParses(file)
            /\ s \in DOMAIN file.obj.processed_dirs

\* C35: the processing list holds directories only, and the loader reads the listing of
\* directories only: an entry of a station directory that is not a directory is neither
\* listed for processing nor loaded.
C35_OnlyDirectoriesListed ==
    InRun =>
        \A i \in 1..Len(processing_list) :
            /\ UnitAt(fs, processing_list[i].night_path_rel).isdir
            /\ err # "NotADirectoryError"

\* the entries of the station directories that discovery goes through
DiscoveredEntries ==
    {i \in 1..Len(fn_args.order) : InSeq(fn_args.order[i].station, fn_args.stations)}

\* C36: discovery splits the entries of the accepted stations' directories: the number
\* of listed entries plus the number of skipped ones is the number of entries, no listed
\* entry is in the ledger, and the ledger's lists of paths are as before, a newly seen
\* station having the empty list.
C36_DiscoveryPartitions ==
    fn_pc = "ret" =>
        LET plist == fn_result.processing_list
            before == fn_args.db.processed_dirs
            after == fn_result.db.processed_dirs
        IN  /\ Len(plist) + skipped_dirs(fn_args.stations, fn_args.db, fn_args.order)
                  = Cardinality(DiscoveredEntries)
            /\ \A i \in 1..Len(plist) :
                  ~InSeq(plist[i].night_path_rel, after[plist[i].station_name])
            /\ \A s \in DOMAIN after :
                  after[s] = IF s \in DOMAIN before THEN before[s] ELSE <<>>

\* discovery has listed an entry, skipped an entry and registered a new station
C36_Witness ==
    /\ fn_pc = "ret"
    /\ fn_result.processing_list # <<>>
    /\ skipped_dirs(fn_args.stations, fn_args.db, fn_args.order) > 0
    /\ DOMAIN fn_result.db.processed_dirs # DOMAIN fn_args.db.processed_dirs

\* C37: for every track of at least 2 picks with increasing frames the constructor
\* returns with its two flags: no index is out of range and neither velocity divides by
\* a zero frame difference.
C37_EstimatorTotal ==
    fn_pc = "ret" =>
        /\ fn_result.raised = "none"
        /\ fn_result.fov_beg \in BOOLEAN /\ fn_result.fov_end \in BOOLEAN
        /\ fn_result.pre.x[2] # 0
        /\ fn_result.post.x[2] # 0

\* C38: save() after the load of the constructor writes the document of the object to
\* the path the object was constructed with and to no other path, whatever the file
\* that was loaded holds.
C38_SaveToConstructorPath ==
    fn_pc = "saved" =>
        /\ fn_result.files[fn_args.db_file_path] = JsonDump(fn_result.db)
        /\ \A p \in LedgerPaths \ {fn_args.db_file_path} :
              fn_result.files[p] = fn_args.files[p]

\* the last call of addProcessedDir named a station that was not a key of processed_dirs
UnknownStationCall ==
    /\ fn_pc \in {"loaded", "saved"}
    /\ fn_result.call # None
    /\ fn_result.call[1].station_name \notin DOMAIN fn_result.call[1].before.processed_dirs

\* C39: addProcessedDir for a station that is not a key of processed_dirs returns with
\* the ledger as it was, and the path is in no list: once the station is registered its
\* list does not hold the path.
C39_UnknownStationNoOp ==
    UnknownStationCall =>
        LET c == fn_result.call[1]
        IN  /\ c.after = c.before
            /\ \A s \in DOMAIN c.after.processed_dirs :
                  ~InSeq(c.rel_proc_path, c.after.processed_dirs[s])
            /\ NotInProcessedDirs(RegisterStation(c.after, c.station_name),
                                  c.station_name, c.rel_proc_path)

\* addProcessedDir was called for a station that is not a key, on a ledger that holds
\* a folder of another station
C39_Witness ==
    /\ UnknownStationCall
    /\ \E s \in DOMAIN fn_result.call[1].before.processed_dirs :
          fn_result.call[1].before.processed_dirs[s] # <<>>

====
